---- MODULE Spec2Model ----
(***************************************************************************)
(* Admission control of the append-only agent ledger (src/app.py).         *)
(*                                                                         *)
(* Every HTTP request is one task.  The shared state is the SQLite         *)
(* database: the tables agents, ledger, agent_daily_counts and             *)
(* ip_daily_counts, plus the database write lock that BEGIN IMMEDIATE and   *)
(* the INSERT statements take.  A request's fields are drawn where the      *)
(* code first reads them (the client address in before_request, the body   *)
(* and the headers at the top of write_entry).                             *)
(***************************************************************************)
EXTENDS Integers, Sequences, FiniteSets, TLC

\* ------------------------------------------------------------- bounds
\* number of requests served in one behaviour
MaxReqs == 2
\* number of UTC days the clock runs through
MaxDay == 2
\* DAILY_LIMIT_PER_KEY and DAILY_LIMIT_PER_IP are read from the environment
\* (defaults 10 and 200); the model runs them at every value in 1..MaxLimit
MaxLimit == 2
\* number of ledger rows, and of instants they were written at, in the
\* ledgers SpecRead reads
MaxRows == 3
MaxStamp == 3

\* ------------------------------------------------- program constants
MAX_CLAIM_CHARS == 240
MAX_CONTEXT_CHARS == 2000
MAX_AGENT_ID_CHARS == 64
MAX_DOMAIN_CHARS == 128
MAX_OBJECT_CHARS == 256

Reqs == 1..MaxReqs
Days == 1..MaxDay

\* ------------------------------------------------------------ values
\* A JSON / header value: a missing key, null, a string (known by a label,
\* its length, the length of its strip() and the number float() reads from
\* it, NaN when float() raises) or a number.  Numbers are in 1/10000ths.
NaN == 0 - 999999
Absent == [type |-> "absent", id |-> "", len |-> 0, stripped |-> 0, num |-> NaN]
Null == [type |-> "null", id |-> "", len |-> 0, stripped |-> 0, num |-> NaN]
Txt(id, len, stripped) ==
    [type |-> "str", id |-> id, len |-> len, stripped |-> stripped, num |-> NaN]
Num(v) == [type |-> "num", id |-> "", len |-> 0, stripped |-> 0, num |-> v]
EmptyStr == Txt("", 0, 0)

\* Python truthiness of a value: None, "" and 0 are falsy
Truthy(v) ==
    CASE v.type = "str" -> v.len > 0
      [] v.type = "num" -> v.num # 0
      [] OTHER -> FALSE

\* x or ""
OrEmpty(v) == IF Truthy(v) THEN v ELSE EmptyStr

\* str.strip()
Strip(v) == [v EXCEPT !.len = v.stripped, !.id = IF v.stripped = 0 THEN "" ELSE v.id]

\* ---------------------------------------------------------- requests
Fields == {"domain", "object", "claim", "context", "confidence", "agent_id", "extra"}

Body(dom, obj, clm, ctx, conf, aid, extra) ==
    [domain |-> dom, object |-> obj, claim |-> clm, context |-> ctx,
     confidence |-> conf, agent_id |-> aid, extra |-> extra]

\* request.json of {}: no key at all
EmptyBody == Body(Absent, Absent, Absent, Absent, Absent, Absent, Absent)

\* dict.get(field): None for a missing key
Get(data, field) == IF data[field].type = "absent" THEN Null ELSE data[field]

\* `not data`: an empty dict is falsy
NoData(data) == \A f \in Fields : data[f].type = "absent"

\* float(x): the number, or NaN when float() raises (None, a non-numeric string)
Float(v) ==
    CASE v.type = "num" -> v.num
      [] v.type = "str" -> v.num
      [] OTHER -> NaN

\* the first field of ["domain", "object", "claim", "confidence"] not in data
Required == <<"domain", "object", "claim", "confidence">>
FirstMissing(data) ==
    LET miss == {i \in 1..Len(Required) : data[Required[i]].type = "absent"}
    IN  IF miss = {} THEN "" ELSE Required[CHOOSE i \in miss : \A j \in miss : i <= j]

\* the confidence is converted and tested before the lengths
ValidateNumberFirst(data, username) ==
    LET domain == Strip(OrEmpty(Get(data, "domain")))
        obj == Strip(OrEmpty(Get(data, "object")))
        claim == OrEmpty(Get(data, "claim"))
        context == Get(data, "context")
        confidence == Float(Get(data, "confidence"))
    IN  IF FirstMissing(data) # "" THEN "missing " \o FirstMissing(data)
        ELSE IF ~Truthy(domain) \/ ~Truthy(obj) \/ ~Truthy(claim)
            THEN "domain, object and claim must be non-empty"
        ELSE IF confidence = NaN THEN "confidence must be a number"
        ELSE IF ~(0 <= confidence /\ confidence <= 10000) THEN "confidence out of range"
        ELSE IF username.len > MAX_AGENT_ID_CHARS THEN "agent_id too long"
        ELSE IF domain.len > MAX_DOMAIN_CHARS THEN "domain too long"
        ELSE IF obj.len > MAX_OBJECT_CHARS THEN "object too long"
        ELSE IF claim.len > MAX_CLAIM_CHARS THEN "claim too long"
        ELSE IF context.type # "null" /\ context.len > MAX_CONTEXT_CHARS
            THEN "context too long"
        ELSE "ok"

\* write_entry's field validation: "ok", or the error of the first failing test
Validate(data, username) ==
    LET domain == Strip(OrEmpty(Get(data, "domain")))
        obj == Strip(OrEmpty(Get(data, "object")))
        claim == OrEmpty(Get(data, "claim"))
        context == Get(data, "context")
        confidence == Float(Get(data, "confidence"))
    IN  IF FirstMissing(data) # "" THEN "missing " \o FirstMissing(data)
        ELSE IF ~Truthy(domain) \/ ~Truthy(obj) \/ ~Truthy(claim)
            THEN "domain, object and claim must be non-empty"
        ELSE IF username.len > MAX_AGENT_ID_CHARS THEN "agent_id too long"
        ELSE IF domain.len > MAX_DOMAIN_CHARS THEN "domain too long"
        ELSE IF obj.len > MAX_OBJECT_CHARS THEN "object too long"
        ELSE IF claim.len > MAX_CLAIM_CHARS THEN "claim too long"
        ELSE IF context.type # "null" /\ context.len > MAX_CONTEXT_CHARS
            THEN "context too long"
        ELSE IF confidence = NaN THEN "confidence must be a number"
        ELSE IF ~(0 <= confidence /\ confidence <= 10000) THEN "confidence out of range"
        ELSE "ok"

\* ------------------------------------------------------ configuration
\* the headers and bodies the requests of a behaviour are drawn from
\* header values and credentials are compared only for equality and emptiness
WriteKeyHeaders == {"", "secret", "wrong"}
KeyHeaders == {"", "k1", "k2", "kx"}
Alice == Txt("alice", 5, 5)
Bob == Txt("bob", 3, 3)
Ips == {"ip1", "ip2"}
ForwardedFor == {<<>>, <<"ip1">>, <<"ip2", "ip1">>}

\* the usernames sent to /register: none, one with a character outside
\* [a-zA-Z0-9_], a new one padded with blanks, and one that is taken
Carol == Txt("carol", 5, 5)
NonWord == {"c@rol"}
RegNames == {Absent, Txt("c@rol", 5, 5), Txt("carol", 7, 5), Alice}
\* the tokens secrets.token_urlsafe(24) returns, none of them in use
NewKeys == {"k3"}

\* the limit argument of GET /entries: not given, or a string and the number
\* int() reads from it (NaN when int() raises)
NoArg == [type |-> "absent", int |-> NaN]
Arg(n) == [type |-> "str", int |-> n]
LimitArgs == {NoArg, Arg(0), Arg(1000), [type |-> "str", int |-> NaN]}

Word == Txt("w", 8, 8)
Blank == Txt("blank", 2, 0)
ValidBody == Body(Word, Word, Word, Absent, Num(5000), Absent, Absent)

\* what write_entry reads of the body before it validates: whether it is
\* empty, and agent_id
AuthBodies ==
    { EmptyBody,
      [EmptyBody EXCEPT !.extra = Num(1)],
      [EmptyBody EXCEPT !.agent_id = Txt("mallory", 7, 7)] }

\* the body as the validation reads it
FieldSets ==
    { ValidBody,
      [ValidBody EXCEPT !.confidence = Absent],
      [ValidBody EXCEPT !.domain = Blank],
      [ValidBody EXCEPT !.claim = Blank],
      [ValidBody EXCEPT !.claim = Txt("long", MAX_CLAIM_CHARS + 1, MAX_CLAIM_CHARS + 1)],
      [ValidBody EXCEPT !.confidence = Txt("high", 4, 4)],
      [ValidBody EXCEPT !.confidence = Num(10001)] }

\* ------------------------------------------------------------- state
VARIABLES
    config,               \* the configuration read from the environment at startup
    today,                \* utc_day_str(): the current UTC day
    agents,               \* table agents: rows [username, agent_key]
    ledger,               \* table ledger: the rows in rowid order
    agent_daily_counts,   \* table agent_daily_counts: <<agent_key, day>> -> count
    ip_daily_counts,      \* table ip_daily_counts: <<ip, day>> -> count
    db_lock,              \* the request holding the database write lock, 0 when free
    req,                  \* each request's position and local variables
    response,             \* the response sent last, with the request's credentials
    returned              \* per (table, key, day): how the _enforce_daily_limit calls returned

vars == <<config, today, agents, ledger, agent_daily_counts, ip_daily_counts,
          db_lock, req, response, returned>>

\* the admin secret ("" when unset) and the two daily limits
WRITE_KEY == config.WRITE_KEY
DAILY_LIMIT_PER_KEY == config.DAILY_LIMIT_PER_KEY
DAILY_LIMIT_PER_IP == config.DAILY_LIMIT_PER_IP

None == Null

\* no _enforce_daily_limit call has returned yet
NoResult == [ok |-> FALSE, remaining |-> 0 - 1, used_after |-> 0 - 1]

\* a request before it arrives; agent_key "" is None (both are falsy, and no
\* credential is the empty string)
IdleReq ==
    [pc |-> "idle",
     table |-> "none", key_value |-> "none", day |-> 0, limit |-> 0,
     row |-> FALSE, used |-> 0, used_after |-> 0,
     username |-> None, agent_key |-> "", admin |-> FALSE, data |-> EmptyBody,
     result |-> NoResult]

\* a request whose response is sent: its locals are gone
DoneReq == [IdleReq EXCEPT !.pc = "done"]

\* a response: the status (and which 4xx), the quota result it reports, and
\* the credentials the request carried
Response(status, result, x_agent_key, admin) ==
    [status |-> status, result |-> result, x_agent_key |-> x_agent_key, admin |-> admin,
     username |-> None, agent_key |-> "", error |-> "", data |-> EmptyBody,
     limit |-> 0, entries |-> <<>>]
NoResponse == Response("none", NoResult, "", FALSE)

\* the (table, key, day) triples _enforce_daily_limit can be called with
Calls ==
    ({"ip_daily_counts"} \X Ips \X Days)
        \cup ({"agent_daily_counts"} \X KeyHeaders \X Days)
\* rolled_back: those of the failed calls whose UPDATE, INSERT or COMMIT raised
NoCalls == [allowed |-> 0, denied |-> 0, failed |-> 0, rolled_back |-> 0]

\* the store after init_db() and the registration of two agents
Init ==
    /\ config \in [WRITE_KEY : {"", "secret"},
                   DAILY_LIMIT_PER_KEY : 1..MaxLimit,
                   DAILY_LIMIT_PER_IP : 1..MaxLimit]
    /\ today = 1
    /\ agents = {[username |-> Alice, agent_key |-> "k1"],
                 [username |-> Bob, agent_key |-> "k2"]}
    /\ ledger = <<>>
    /\ agent_daily_counts = <<>>
    /\ ip_daily_counts = <<>>
    /\ db_lock = 0
    /\ req = [r \in Reqs |-> IdleReq]
    /\ response = NoResponse
    /\ returned = [c \in Calls |-> NoCalls]

\* --------------------------------------------------------- helpers
Max(a, b) == IF a >= b THEN a ELSE b
Min(a, b) == IF a <= b THEN a ELSE b

\* request.headers X-Forwarded-For (a list, empty when absent) and remote_addr
get_client_ip(xff, remote_addr) ==
    IF xff # <<>> THEN Head(xff)
    ELSE IF remote_addr # "" THEN remote_addr ELSE "unknown"

\* the header is compared with WRITE_KEY even when WRITE_KEY is not set
is_admin_write_unguarded(x_write_key) == x_write_key = WRITE_KEY

is_admin_write(x_write_key) ==
    IF WRITE_KEY = "" THEN FALSE ELSE x_write_key = WRITE_KEY

agent_key_to_username(agent_key) ==
    IF agent_key = "" THEN None
    ELSE IF \E a \in agents : a.agent_key = agent_key
        THEN (CHOOSE a \in agents : a.agent_key = agent_key).username
        ELSE None

Table(t) == IF t = "ip_daily_counts" THEN ip_daily_counts ELSE agent_daily_counts

\* the count of a row, 0 when there is none
CountIn(tab, k, d) == IF <<k, d>> \in DOMAIN tab THEN tab[<<k, d>>] ELSE 0

\* SELECT count FROM table WHERE key_col = ?: the day is not matched
CountAnyDay(t, k, d) ==
    IF \E x \in DOMAIN Table(t) : x[1] = k
    THEN Table(t)[CHOOSE x \in DOMAIN Table(t) : x[1] = k] ELSE 0

\* SELECT count FROM table WHERE key_col = ? AND day = ?
HasRow(t, k, d) == <<k, d>> \in DOMAIN Table(t)
Count(t, k, d) == CountIn(Table(t), k, d)

\* UPDATE table SET count = ? WHERE key_col = ? AND day = ?
UpdateRow(tab, k, d, v) == [x \in DOMAIN tab |-> IF x = <<k, d>> THEN v ELSE tab[x]]

\* INSERT INTO table (key_col, day, count) VALUES (?, ?, ?)
InsertRow(tab, k, d, v) == (<<k, d>> :> v) @@ tab

\* if used >= limit
LimitReached(used, limit) == used >= limit

\* used_after = used + 2
IncrementTwice(used) == used + 2

\* used_after = used + 1
Increment(used) == used + 1

\* the two callers' arguments: the table, the key and the limit
enforce_ip_daily_limit(ip) ==
    [table |-> "ip_daily_counts", key_value |-> ip, limit |-> DAILY_LIMIT_PER_IP]
\* one counter for every credential
enforce_key_daily_limit_shared(agent_key) ==
    [table |-> "agent_daily_counts", key_value |-> "k1", limit |-> DAILY_LIMIT_PER_KEY]
enforce_key_daily_limit(agent_key) ==
    [table |-> "agent_daily_counts", key_value |-> agent_key, limit |-> DAILY_LIMIT_PER_KEY]

\* _enforce_daily_limit entered by request q: day = utc_day_str(), then BEGIN
Enter(q, call) ==
    [q EXCEPT !.pc = "begin", !.table = call.table, !.key_value = call.key_value,
              !.limit = call.limit, !.day = today]

\* the three returns of _enforce_daily_limit: (ok, remaining, used_after)
Allowed(limit, used_after) ==
    [ok |-> TRUE, remaining |-> Max(0, limit - used_after), used_after |-> used_after]
Denied(used) == [ok |-> FALSE, remaining |-> 0, used_after |-> used]
\* fail open: the request is let through when the store raises
FailOpen(limit) == [ok |-> TRUE, remaining |-> 0, used_after |-> limit]
FailClosed(limit) == [ok |-> FALSE, remaining |-> 0, used_after |-> limit]

\* global_ip_rate_limit without its return: the request goes on to its handler
ResumeUnchecked(q, res) ==
    IF q.table = "ip_daily_counts" THEN [IdleReq EXCEPT !.pc = "route"]
    ELSE IF ~res.ok THEN DoneReq
    ELSE [IdleReq EXCEPT !.pc = "validate", !.username = q.username,
                         !.agent_key = q.agent_key, !.admin = q.admin, !.result = res,
                         !.data = q.data]

\* the caller's `if not ok`: global_ip_rate_limit answers 429 or lets the
\* request through to its handler, write_entry answers 429 or goes on to
\* validate
Resume(q, res) ==
    IF ~res.ok THEN DoneReq
    ELSE IF q.table = "ip_daily_counts" THEN [IdleReq EXCEPT !.pc = "route"]
    ELSE [IdleReq EXCEPT !.pc = "validate", !.username = q.username,
                         !.agent_key = q.agent_key, !.admin = q.admin, !.result = res,
                         !.data = q.data]

\* make_429 of either caller
Answer(q, res) ==
    IF res.ok THEN response
    ELSE IF q.table = "ip_daily_counts" THEN Response("429 ip", res, "", FALSE)
    ELSE Response("429 key", res, q.agent_key, q.admin)

CallOf(q) == <<q.table, q.key_value, q.day>>

\* ------------------------------------------------------------ clock
\* midnight UTC passes
Midnight ==
    /\ today < MaxDay
    /\ today' = today + 1
    /\ UNCHANGED <<config, agents, ledger, agent_daily_counts, ip_daily_counts,
                   db_lock, req, response, returned>>

\* -------------------------------------------- global_ip_rate_limit
\* before_request: the client address, then enforce_ip_daily_limit(ip),
\* which reads the day and opens its connection
Arrive(r) ==
    /\ req[r].pc = "idle"
    /\ IF r = 1 THEN TRUE ELSE req[r - 1].pc # "idle"
    /\ \E xff \in ForwardedFor, remote_addr \in Ips :
          LET ip == get_client_ip(xff, remote_addr)
          IN  req' = [req EXCEPT ![r] = Enter(@, enforce_ip_daily_limit(ip))]
    /\ UNCHANGED <<config, today, agents, ledger, agent_daily_counts,
                   ip_daily_counts, db_lock, response, returned>>

\* ------------------------------------------- _enforce_daily_limit
TxnPcs == {"begin", "select", "limit_commit", "update", "commit"}

\* BEGIN without IMMEDIATE: no lock is taken before the SELECT
CanBeginDeferred(r) == TRUE

\* BEGIN IMMEDIATE takes the database write lock; it waits while another
\* connection holds it
CanBegin(r) == db_lock = 0

Begin(r) ==
    /\ req[r].pc = "begin"
    /\ CanBegin(r)
    /\ db_lock' = r
    /\ req' = [req EXCEPT ![r].pc = "select"]
    /\ UNCHANGED <<config, today, agents, ledger, agent_daily_counts,
                   ip_daily_counts, response, returned>>

\* the SELECT, used = int(row["count"]) if row else 0, and the test of the limit
Select(r) ==
    LET q == req[r]
        used == Count(q.table, q.key_value, q.day)
    IN  /\ q.pc = "select"
        /\ req' = [req EXCEPT ![r] =
                     [q EXCEPT !.row = HasRow(q.table, q.key_value, q.day),
                               !.used = used,
                               !.pc = IF LimitReached(used, q.limit)
                                      THEN "limit_commit" ELSE "update"]]
        /\ UNCHANGED <<config, today, agents, ledger, agent_daily_counts,
                       ip_daily_counts, db_lock, response, returned>>

\* used >= limit: COMMIT, close, return (False, 0, used)
CommitDenied(r) ==
    LET q == req[r]
    IN  /\ q.pc = "limit_commit"
        /\ db_lock' = 0
        /\ req' = [req EXCEPT ![r] = Resume(q, Denied(q.used))]
        /\ response' = Answer(q, Denied(q.used))
        /\ returned' = [returned EXCEPT ![CallOf(q)].denied = @ + 1]
        /\ UNCHANGED <<config, today, agents, ledger, agent_daily_counts,
                       ip_daily_counts>>

\* used_after = used + 1 and the UPDATE or INSERT, inside the open transaction
Update(r) ==
    LET q == req[r]
    IN  /\ q.pc = "update"
        /\ req' = [req EXCEPT ![r] = [q EXCEPT !.used_after = Increment(q.used), !.pc = "commit"]]
        /\ UNCHANGED <<config, today, agents, ledger, agent_daily_counts,
                       ip_daily_counts, db_lock, response, returned>>

\* the table once the transaction's write is committed
Written(tab, q) ==
    IF q.row THEN UpdateRow(tab, q.key_value, q.day, q.used_after)
    ELSE InsertRow(tab, q.key_value, q.day, q.used_after)

\* COMMIT, close, return (True, remaining, used_after)
Commit(r) ==
    LET q == req[r]
    IN  /\ q.pc = "commit"
        /\ db_lock' = 0
        /\ IF q.table = "ip_daily_counts"
           THEN /\ ip_daily_counts' = Written(ip_daily_counts, q)
                /\ UNCHANGED agent_daily_counts
           ELSE /\ agent_daily_counts' = Written(agent_daily_counts, q)
                /\ UNCHANGED ip_daily_counts
        /\ req' = [req EXCEPT ![r] = Resume(q, Allowed(q.limit, q.used_after))]
        /\ response' = Answer(q, Allowed(q.limit, q.used_after))
        /\ returned' = [returned EXCEPT ![CallOf(q)].allowed = @ + 1]
        /\ UNCHANGED <<config, today, agents, ledger>>

\* the calls whose counter write (the UPDATE or INSERT, or its COMMIT) raised
WriteFailed(q) == IF q.pc \in {"update", "commit"} THEN 1 ELSE 0

\* a COMMIT that raises leaves the executed UPDATE or INSERT in the table
StoreErrorNoRollback(r) ==
    LET q == req[r]
    IN  /\ q.pc \in TxnPcs
        /\ db_lock' = IF db_lock = r THEN 0 ELSE db_lock
        /\ req' = [req EXCEPT ![r] = Resume(q, FailClosed(q.limit))]
        /\ response' = Answer(q, FailClosed(q.limit))
        /\ returned' = [returned EXCEPT ![CallOf(q)].failed = @ + 1,
                                        ![CallOf(q)].rolled_back = @ + WriteFailed(q)]
        /\ IF q.pc = "commit" /\ q.table = "ip_daily_counts"
           THEN ip_daily_counts' = Written(ip_daily_counts, q)
           ELSE UNCHANGED ip_daily_counts
        /\ IF q.pc = "commit" /\ q.table = "agent_daily_counts"
           THEN agent_daily_counts' = Written(agent_daily_counts, q)
           ELSE UNCHANGED agent_daily_counts
        /\ UNCHANGED <<config, today, agents, ledger>>

\* the call is tried again after an error instead of returning
StoreErrorRetry(r) ==
    LET q == req[r]
    IN  /\ q.pc \in TxnPcs
        /\ db_lock' = IF db_lock = r THEN 0 ELSE db_lock
        /\ req' = [req EXCEPT ![r] = [q EXCEPT !.pc = "begin", !.row = FALSE,
                                               !.used = 0, !.used_after = 0]]
        /\ UNCHANGED <<config, today, agents, ledger, agent_daily_counts,
                       ip_daily_counts, response, returned>>

\* any statement of the transaction raises (an I/O error, or "database is
\* locked" when BEGIN IMMEDIATE waited too long): ROLLBACK, close,
\* return (False, 0, limit); an UPDATE or INSERT already executed is undone
StoreError(r) ==
    LET q == req[r]
    IN  /\ q.pc \in TxnPcs
        /\ db_lock' = IF db_lock = r THEN 0 ELSE db_lock
        /\ req' = [req EXCEPT ![r] = Resume(q, FailClosed(q.limit))]
        /\ response' = Answer(q, FailClosed(q.limit))
        /\ returned' = [returned EXCEPT ![CallOf(q)].failed = @ + 1,
                                        ![CallOf(q)].rolled_back = @ + WriteFailed(q)]
        /\ UNCHANGED <<config, today, agents, ledger, agent_daily_counts,
                       ip_daily_counts>>

\* ------------------------------------------------------ write_entry
\* the part of the body known once write_entry has authenticated: agent_id
Sent(data) == [EmptyBody EXCEPT !.agent_id = data.agent_id]

\* data.get("agent_id") or "admin"
AdminIdentity(data) ==
    IF Truthy(Get(data, "agent_id")) THEN Get(data, "agent_id") ELSE Txt("admin", 5, 5)

\* the admin branch with the per-key limit applied to the header's credential
AdminPathLimited(q, data, x_agent_key) ==
    Enter([q EXCEPT !.admin = TRUE, !.agent_key = x_agent_key,
                    !.username = AdminIdentity(data), !.data = Sent(data)],
          enforce_key_daily_limit(x_agent_key))

\* the admin branch: username from the body, agent_key = None, and no call of
\* enforce_key_daily_limit; the X-Agent-Key header is not read
AdminPath(q, data, x_agent_key) ==
    [q EXCEPT !.pc = "validate", !.admin = TRUE, !.agent_key = "",
              !.username = AdminIdentity(data), !.data = Sent(data)]

\* write_entry up to the call of enforce_key_daily_limit: the body, the
\* admin override, the credential
WriteEntryAuth(r) ==
    LET q == req[r]
    IN  /\ q.pc = "route"
        /\ \E data \in AuthBodies, x_write_key \in WriteKeyHeaders, x_agent_key \in KeyHeaders :
              LET admin == is_admin_write(x_write_key)
                  username == agent_key_to_username(x_agent_key)
              IN  IF NoData(data)
                  THEN /\ req' = [req EXCEPT ![r] = DoneReq]
                       /\ response' = Response("400 no data", NoResult, x_agent_key, admin)
                  ELSE IF admin
                  THEN /\ req' = [req EXCEPT ![r] = AdminPath(q, data, x_agent_key)]
                       /\ UNCHANGED response
                  ELSE IF username = None
                  THEN /\ req' = [req EXCEPT ![r] = DoneReq]
                       /\ response' = Response("401", NoResult, x_agent_key, admin)
                  ELSE /\ req' = [req EXCEPT ![r] =
                              Enter([q EXCEPT !.username = username,
                                              !.agent_key = x_agent_key,
                                              !.data = Sent(data)],
                                    enforce_key_daily_limit(x_agent_key))]
                       /\ UNCHANGED response
        /\ UNCHANGED <<config, today, agents, ledger, agent_daily_counts,
                       ip_daily_counts, db_lock, returned>>

\* the row stores the agent_id of the body when there is one
LedgerRowFromPayload(q) ==
    [by_key |-> q.agent_key,
     by_admin |-> q.admin,
     sent_agent_id |-> Get(q.data, "agent_id"),
     timestamp |-> today,
     agent_id |-> IF Truthy(Get(q.data, "agent_id"))
                  THEN Get(q.data, "agent_id").id ELSE q.username.id,
     domain |-> Strip(OrEmpty(Get(q.data, "domain"))),
     object |-> Strip(OrEmpty(Get(q.data, "object"))),
     claim |-> OrEmpty(Get(q.data, "claim")),
     confidence |-> Float(Get(q.data, "confidence")),
     signal_class |-> "accepted"]

\* the row write_entry inserts; by_key, by_admin and sent_agent_id are not
\* columns: they record the credential the row was written under and the
\* agent_id its body carried
LedgerRow(q) ==
    [by_key |-> q.agent_key,
     by_admin |-> q.admin,
     sent_agent_id |-> Get(q.data, "agent_id"),
     timestamp |-> today,
     agent_id |-> q.username.id,
     domain |-> Strip(OrEmpty(Get(q.data, "domain"))),
     object |-> Strip(OrEmpty(Get(q.data, "object"))),
     claim |-> OrEmpty(Get(q.data, "claim")),
     confidence |-> Float(Get(q.data, "confidence")),
     signal_class |-> "accepted"]

\* the row is inserted before the fields are validated
WriteEntryValidateLate(r) ==
    LET q == req[r]
    IN  /\ q.pc = "validate"
        /\ \E data \in FieldSets :
              /\ ledger' = Append(ledger, LedgerRow([q EXCEPT !.data =
                                       [data EXCEPT !.agent_id = q.data.agent_id]]))
              /\ IF Validate(data, q.username) # "ok"
                 THEN /\ req' = [req EXCEPT ![r] = DoneReq]
                      /\ response' = Response("400 validation", q.result, q.agent_key, q.admin)
                 ELSE /\ req' = [req EXCEPT ![r] = [q EXCEPT !.pc = "insert", !.data = data]]
                      /\ UNCHANGED response
        /\ UNCHANGED <<config, today, agents, agent_daily_counts,
                       ip_daily_counts, db_lock, returned>>

\* the field validation, on the body as it reads it
WriteEntryValidate(r) ==
    LET q == req[r]
    IN  /\ q.pc = "validate"
        /\ \E fields \in FieldSets :
              LET data == [fields EXCEPT !.agent_id = q.data.agent_id]
              IN  IF Validate(data, q.username) # "ok"
                  THEN /\ req' = [req EXCEPT ![r] = DoneReq]
                       /\ response' = Response("400 validation", q.result, q.agent_key, q.admin)
                  ELSE /\ req' = [req EXCEPT ![r] = [q EXCEPT !.pc = "insert", !.data = data]]
                       /\ UNCHANGED response
        /\ UNCHANGED <<config, today, agents, ledger, agent_daily_counts,
                       ip_daily_counts, db_lock, returned>>

\* INSERT INTO ledger and commit: the statement needs the write lock
WriteEntryInsert(r) ==
    LET q == req[r]
    IN  /\ q.pc = "insert"
        /\ db_lock = 0
        /\ ledger' = Append(ledger, LedgerRow(q))
        /\ req' = [req EXCEPT ![r] = DoneReq]
        /\ response' = Response("200", q.result, q.agent_key, q.admin)
        /\ UNCHANGED <<config, today, agents, agent_daily_counts,
                       ip_daily_counts, db_lock, returned>>

\* the commit raises after the INSERT and the row stays in the table
WriteEntryInsertErrorKept(r) ==
    LET q == req[r]
    IN  /\ q.pc = "insert"
        /\ ledger' = Append(ledger, LedgerRow(q))
        /\ req' = [req EXCEPT ![r] = DoneReq]
        /\ response' = Response("500", q.result, q.agent_key, q.admin)
        /\ UNCHANGED <<config, today, agents, agent_daily_counts,
                       ip_daily_counts, db_lock, returned>>

\* the INSERT or its commit raises: nothing catches it, the request fails
WriteEntryInsertError(r) ==
    LET q == req[r]
    IN  /\ q.pc = "insert"
        /\ req' = [req EXCEPT ![r] = DoneReq]
        /\ response' = Response("500", q.result, q.agent_key, q.admin)
        /\ UNCHANGED <<config, today, agents, ledger, agent_daily_counts,
                       ip_daily_counts, db_lock, returned>>

\* --------------------------------------------------- register_agent
\* USERNAME_RE.match(username): 3 to 32 characters of [a-zA-Z0-9_]
UsernameMatch(v) == v.len >= 3 /\ v.len <= 32 /\ v.id \notin NonWord

\* the response of /register, with the username and the credential it returns
RegisterResponse(status, username, agent_key) ==
    [Response(status, NoResult, "", FALSE) EXCEPT !.username = username,
                                                  !.agent_key = agent_key]

\* the INSERT goes through although the username has a row
UsernameFreeAlways(username) == TRUE

\* the UNIQUE constraint on agents.username
UsernameFree(username) == \A a \in agents : a.username # username

\* register_agent: the username tests, the new credential, and the INSERT with
\* its commit, which needs the write lock; IntegrityError is answered 409
Register(r) ==
    LET q == req[r]
    IN  /\ q.pc = "route"
        /\ \E raw \in RegNames :
              LET username == Strip(OrEmpty(IF raw.type = "absent" THEN Null ELSE raw))
                  agent_key == CHOOSE k \in NewKeys : \A a \in agents : a.agent_key # k
              IN  IF ~Truthy(username)
                  THEN /\ response' = RegisterResponse("400 missing username", username, "")
                       /\ UNCHANGED agents
                  ELSE IF ~UsernameMatch(username)
                  THEN /\ response' = RegisterResponse("400 invalid username", username, "")
                       /\ UNCHANGED agents
                  ELSE /\ db_lock = 0
                       /\ IF UsernameFree(username)
                          THEN /\ agents' = agents \cup
                                    {[username |-> username, agent_key |-> agent_key]}
                               /\ response' = RegisterResponse("200 register", username, agent_key)
                          ELSE /\ response' = RegisterResponse("409", username, "")
                               /\ UNCHANGED agents
        /\ req' = [req EXCEPT ![r] = DoneReq]
        /\ UNCHANGED <<config, today, ledger, agent_daily_counts,
                       ip_daily_counts, db_lock, returned>>

\* the INSERT or its commit raises another error than IntegrityError (the
\* database stays locked, an I/O error): nothing catches it
RegisterError(r) ==
    LET q == req[r]
    IN  /\ q.pc = "route"
        /\ \E raw \in RegNames :
              LET username == Strip(OrEmpty(IF raw.type = "absent" THEN Null ELSE raw))
              IN  /\ Truthy(username)
                  /\ UsernameMatch(username)
                  /\ response' = RegisterResponse("500 register", username, "")
        /\ req' = [req EXCEPT ![r] = DoneReq]
        /\ UNCHANGED <<config, today, agents, ledger, agent_daily_counts,
                       ip_daily_counts, db_lock, returned>>

\* ----------------------------------------------------- read_entries
\* int(x) clamped into [lo, hi], default when int() raises
clamp_int(x, lo, hi, default) ==
    IF x.int = NaN THEN default ELSE Max(lo, Min(hi, x.int))

\* request.args.get("limit", 100)
LimitArg(arg) == IF arg.type = "absent" THEN Arg(100) ELSE arg

\* ORDER BY timestamp DESC: the rowids in an order of descending timestamp;
\* the statement names no second key, so rows of equal timestamp come in
\* the order the query plan happens to produce
OrderByTimestampDesc ==
    {f \in [1..Len(ledger) -> 1..Len(ledger)] :
        /\ \A i, j \in 1..Len(ledger) : i # j => f[i] # f[j]
        /\ \A i, j \in 1..Len(ledger) :
              i < j => ledger[f[i]].timestamp >= ledger[f[j]].timestamp}

\* the rows returned are given by their rowids
ReadEntries(r) ==
    LET q == req[r]
    IN  /\ q.pc = "route"
        /\ req' = [req EXCEPT ![r] = DoneReq]
        /\ \E arg \in LimitArgs, rows \in OrderByTimestampDesc :
              LET limit == clamp_int(LimitArg(arg), 1, 500, 100)
              IN  response' = [Response("200 entries", NoResult, "", FALSE) EXCEPT
                                  !.limit = limit,
                                  !.entries = [i \in 1..Min(limit, Len(ledger)) |-> rows[i]]]
        /\ UNCHANGED <<config, today, agents, ledger, agent_daily_counts,
                       ip_daily_counts, db_lock, returned>>

\* ----------------------------------------------------------- whoami
\* the count is read and incremented
WhoamiCounting(r) ==
    LET q == req[r]
    IN  /\ q.pc = "route"
        /\ \E x_agent_key \in KeyHeaders \cup NewKeys :
              LET used_k == Count("agent_daily_counts", x_agent_key, today)
              IN  /\ req' = [req EXCEPT ![r] = DoneReq]
                  /\ IF agent_key_to_username(x_agent_key) = None
                     THEN /\ response' = Response("401 whoami", NoResult, x_agent_key, FALSE)
                          /\ UNCHANGED agent_daily_counts
                     ELSE /\ response' =
                                Response("200 whoami",
                                         [ok |-> TRUE,
                                          remaining |-> Max(0, DAILY_LIMIT_PER_KEY - used_k),
                                          used_after |-> used_k],
                                         x_agent_key, FALSE)
                          /\ agent_daily_counts' =
                                (<<x_agent_key, today>> :> used_k + 1) @@ agent_daily_counts
        /\ UNCHANGED <<config, today, agents, ledger,
                       ip_daily_counts, db_lock, returned>>

\* the count is read without incrementing
Whoami(r) ==
    LET q == req[r]
    IN  /\ q.pc = "route"
        /\ \E x_agent_key \in KeyHeaders \cup NewKeys :
              LET used_k == Count("agent_daily_counts", x_agent_key, today)
              IN  /\ req' = [req EXCEPT ![r] = DoneReq]
                  /\ response' =
                        IF agent_key_to_username(x_agent_key) = None
                        THEN Response("401 whoami", NoResult, x_agent_key, FALSE)
                        ELSE Response("200 whoami",
                                      [ok |-> TRUE,
                                       remaining |-> Max(0, DAILY_LIMIT_PER_KEY - used_k),
                                       used_after |-> used_k],
                                      x_agent_key, FALSE)
        /\ UNCHANGED <<config, today, agents, ledger, agent_daily_counts,
                       ip_daily_counts, db_lock, returned>>

\* ------------------------------------------------------------- spec
Next ==
    \/ Midnight
    \/ \E r \in Reqs :
          \/ Arrive(r)
          \/ Begin(r)
          \/ Select(r)
          \/ CommitDenied(r)
          \/ Update(r)
          \/ Commit(r)
          \/ StoreError(r)
          \/ WriteEntryAuth(r)
          \/ WriteEntryValidate(r)
          \/ WriteEntryInsert(r)
          \/ WriteEntryInsertError(r)
          \/ Register(r)
          \/ RegisterError(r)
          \/ ReadEntries(r)
          \/ Whoami(r)

Spec == Init /\ [][Next]_vars

\* the steps of a request once it has arrived: the worker that serves it
\* keeps running, and a statement that waits for the write lock raises when
\* sqlite3's busy timeout (5 s by default) runs out
Serve(r) ==
    \/ Begin(r)
    \/ Select(r)
    \/ CommitDenied(r)
    \/ Update(r)
    \/ Commit(r)
    \/ StoreError(r)
    \/ WriteEntryAuth(r)
    \/ WriteEntryValidate(r)
    \/ WriteEntryInsert(r)
    \/ WriteEntryInsertError(r)
    \/ Register(r)
    \/ RegisterError(r)
    \/ ReadEntries(r)
    \/ Whoami(r)

\* the start with the admin key set and both limits at 1
FairInit ==
    /\ Init
    /\ config = [WRITE_KEY |-> "secret", DAILY_LIMIT_PER_KEY |-> 1,
                 DAILY_LIMIT_PER_IP |-> 1]

FairSpec == FairInit /\ [][Next]_vars /\ \A r \in Reqs : WF_vars(Serve(r))

\* ----------------------------------------- the validation on any body
\* the values a field is sent with: missing, null, empty, blank, in range,
\* too long; the confidence also as text, below 0, above 1 and at the ends
Long(n) == Txt("long", n + 1, n + 1)
DomainValues == {Absent, Blank, Word, Long(MAX_DOMAIN_CHARS)}
ObjectValues == {Absent, Null, Word, Long(MAX_OBJECT_CHARS)}
ClaimValues == {Absent, EmptyStr, Txt("max", MAX_CLAIM_CHARS, MAX_CLAIM_CHARS),
                Long(MAX_CLAIM_CHARS)}
ContextValues == {Absent, Long(MAX_CONTEXT_CHARS)}
ConfidenceValues ==
    {Absent, Null, Txt("high", 4, 4), Num(0 - 1), Num(0), Num(10000), Num(10001)}
ValidateBodies ==
    {Body(dom, obj, clm, ctx, conf, Absent, Absent) :
        dom \in DomainValues, obj \in ObjectValues, clm \in ClaimValues,
        ctx \in ContextValues, conf \in ConfidenceValues}

\* the requests that reach the validation: a write of alice through her
\* credential, and admin writes under the default and an over-long agent_id
Validating ==
    { [IdleReq EXCEPT !.pc = "validate", !.username = Alice, !.agent_key = "k1",
                      !.result = Allowed(MaxLimit, 1)],
      [IdleReq EXCEPT !.pc = "validate", !.username = Txt("admin", 5, 5), !.admin = TRUE],
      [IdleReq EXCEPT !.pc = "validate", !.username = Long(MAX_AGENT_ID_CHARS),
                      !.admin = TRUE] }

\* the store when the first request, from ip1, has passed its quota checks
InitValidate ==
    /\ config = [WRITE_KEY |-> "secret", DAILY_LIMIT_PER_KEY |-> MaxLimit,
                 DAILY_LIMIT_PER_IP |-> MaxLimit]
    /\ today = 1
    /\ agents = {[username |-> Alice, agent_key |-> "k1"],
                 [username |-> Bob, agent_key |-> "k2"]}
    /\ ledger = <<>>
    /\ ip_daily_counts = (<<"ip1", 1>> :> 1)
    /\ db_lock = 0
    /\ response = NoResponse
    /\ \E q \in Validating, data \in ValidateBodies :
          /\ req = [r \in Reqs |-> IF r = 1 THEN [q EXCEPT !.data = data] ELSE IdleReq]
          /\ agent_daily_counts = IF q.admin THEN <<>> ELSE (<<"k1", 1>> :> 1)
          /\ returned = [c \in Calls |->
                IF c = <<"ip_daily_counts", "ip1", 1>>
                      \/ (c = <<"agent_daily_counts", "k1", 1>> /\ ~q.admin)
                THEN [NoCalls EXCEPT !.allowed = 1] ELSE NoCalls]

\* the field validation of write_entry on the body the request holds; the
\* response carries the error and the body it was given for
ValidateFields(r) ==
    LET q == req[r]
    IN  /\ q.pc = "validate"
        /\ IF Validate(q.data, q.username) # "ok"
           THEN /\ req' = [req EXCEPT ![r] = DoneReq]
                /\ response' = [Response("400 validation", q.result, q.agent_key, q.admin)
                                    EXCEPT !.error = Validate(q.data, q.username),
                                           !.data = q.data]
           ELSE /\ req' = [req EXCEPT ![r] = [q EXCEPT !.pc = "insert"]]
                /\ UNCHANGED response
        /\ UNCHANGED <<config, today, agents, ledger, agent_daily_counts,
                       ip_daily_counts, db_lock, returned>>

NextValidate == \E r \in Reqs : ValidateFields(r)

SpecValidate == InitValidate /\ [][NextValidate]_vars

\* ------------------------------------------ read_entries on any ledger
\* a row written by an admin write at instant t
AdminRow(t) ==
    [LedgerRow([IdleReq EXCEPT !.admin = TRUE, !.username = Txt("admin", 5, 5),
                               !.data = ValidBody])
        EXCEPT !.timestamp = t]

\* the per-origin counts after n writes (two from ip1, then from ip2) and
\* the arrival of the reading request from ip2
ReadCounts(n) ==
    [x \in {<<"ip2", 1>>} \cup (IF n > 0 THEN {<<"ip1", 1>>} ELSE {}) |->
        IF x[1] = "ip1" THEN Min(n, 2) ELSE 1 + Max(0, n - 2)]

\* the store after up to MaxRows admin writes, in any order of their
\* timestamps, with a request about to enter its handler
InitRead ==
    /\ config = [WRITE_KEY |-> "secret", DAILY_LIMIT_PER_KEY |-> MaxLimit,
                 DAILY_LIMIT_PER_IP |-> MaxLimit]
    /\ today = 1
    /\ agents = {[username |-> Alice, agent_key |-> "k1"],
                 [username |-> Bob, agent_key |-> "k2"]}
    /\ ledger \in UNION {[1..n -> {AdminRow(t) : t \in 1..MaxStamp}] : n \in 0..MaxRows}
    /\ agent_daily_counts = <<>>
    /\ ip_daily_counts = ReadCounts(Len(ledger))
    /\ db_lock = 0
    /\ req = [r \in Reqs |-> IF r = 1 THEN [IdleReq EXCEPT !.pc = "route"] ELSE IdleReq]
    /\ response = NoResponse
    /\ returned = [c \in Calls |->
                      IF c[1] = "ip_daily_counts"
                      THEN [NoCalls EXCEPT !.allowed = CountIn(ReadCounts(Len(ledger)), c[2], c[3])]
                      ELSE NoCalls]

NextRead == \E r \in Reqs : ReadEntries(r)

SpecRead == InitRead /\ [][NextRead]_vars

TypeOK ==
    /\ today \in Days
    /\ db_lock \in 0..MaxReqs
    /\ \A r \in Reqs : req[r].pc \in
          {"idle", "route", "validate", "insert", "done"} \cup TxnPcs

\* ============================================================ claims
LimitOf(c) == IF c[1] = "ip_daily_counts" THEN DAILY_LIMIT_PER_IP ELSE DAILY_LIMIT_PER_KEY
Completed(c) == returned[c].allowed + returned[c].denied + returned[c].failed
InFlight(c) == \E r \in Reqs : req[r].pc \in TxnPcs /\ CallOf(req[r]) = c

\* C1 as stated: once K > L attempts on a fresh (scope, day) have all
\* returned, exactly L of them returned allowed=true and K-L allowed=false
C1_ExactlyLimitAllowed ==
    \A c \in Calls :
        (~InFlight(c) /\ Completed(c) > LimitOf(c))
            => /\ returned[c].allowed = LimitOf(c)
               /\ returned[c].denied + returned[c].failed = Completed(c) - LimitOf(c)

\* C1 amended: of the K attempts on a (scope, day) that have returned, F of
\* them after a store error, exactly min(L, K-F) returned allowed=true: never
\* more than L (two racers at L-1 never both succeed), and exactly L as soon
\* as one attempt was turned away for the limit
C1_AllowedIsMinLimitAttempts ==
    \A c \in Calls :
        /\ returned[c].allowed = Min(LimitOf(c), Completed(c) - returned[c].failed)
        /\ returned[c].allowed <= LimitOf(c)

\* K > L attempts on one (scope, day) returned without a store error: L were
\* allowed and K-L turned away
C1_Witness ==
    \E c \in Calls :
        /\ returned[c].failed = 0
        /\ returned[c].allowed = LimitOf(c)
        /\ returned[c].denied >= 1

\* a call on some (scope, day) returned allowed = false in this step
Rejected(c) ==
    returned'[c].denied + returned'[c].failed > returned[c].denied + returned[c].failed

C2_CountWithinAllowed ==
    \A c \in Calls : Count(c[1], c[2], c[3]) <= returned[c].allowed

C2_RejectLeavesCount ==
    \A c \in Calls :
        Rejected(c) =>
            /\ ip_daily_counts' = ip_daily_counts
            /\ agent_daily_counts' = agent_daily_counts
            /\ response'.result.ok = FALSE
            /\ response'.result.remaining = 0

\* C2: the stored count of a (scope, day) never exceeds the number of calls
\* on it that returned allowed = true, and a call that returns allowed =
\* false leaves every stored count as it was and reports remaining = 0.
C2_CountInvariant == []C2_CountWithinAllowed /\ [][C2_RejectLeavesCount]_vars

\* a call was denied with the row of its (scope, day) at the limit, which is
\* also the number of calls on it that were allowed
C2_Witness ==
    \E c \in Calls :
        /\ returned[c].denied >= 1
        /\ Count(c[1], c[2], c[3]) = LimitOf(c)
        /\ returned[c].allowed = LimitOf(c)
        /\ response.status \in {"429 ip", "429 key"}
        /\ response.result = Denied(LimitOf(c))

\* C3: a call in which the store raises returns allowed = false, remaining =
\* 0: the request is answered 429 and ends, and no count and no ledger row
\* is written by it.
C3_FailClosed ==
    [][\A c \in Calls :
         returned'[c].failed > returned[c].failed =>
            /\ response'.status = (IF c[1] = "ip_daily_counts" THEN "429 ip" ELSE "429 key")
            /\ response'.result.ok = FALSE
            /\ response'.result.remaining = 0
            /\ \E r \in Reqs : /\ req[r].pc \in TxnPcs
                               /\ CallOf(req[r]) = c
                               /\ req'[r].pc = "done"
            /\ UNCHANGED <<ledger, agents, ip_daily_counts, agent_daily_counts>>]_vars

\* a store error rejected a write of a credential that had used none of its
\* quota
C3_Witness ==
    /\ response.status = "429 key"
    /\ response.result.ok = FALSE
    /\ \E d \in Days :
          /\ returned[<<"agent_daily_counts", response.x_agent_key, d>>].failed >= 1
          /\ Count("agent_daily_counts", response.x_agent_key, d) = 0

\* C4 as stated: a call that is inside its transaction never keeps a call on
\* another scope from starting its own.
C4_ScopesDoNotBlock ==
    \A p, q \in Reqs :
        ( /\ db_lock = p
          /\ req[p].pc \in TxnPcs
          /\ req[q].pc = "begin"
          /\ <<req[q].table, req[q].key_value>> # <<req[p].table, req[p].key_value>> )
        => CanBegin(q)

C5_OwnCount ==
    \A c \in Calls :
        c[1] = "agent_daily_counts" =>
            Count(c[1], c[2], c[3]) = returned[c].allowed

C5_KeyRowsFrame ==
    \A k \in KeyHeaders, d \in Days :
        CountIn(agent_daily_counts', k, d) # CountIn(agent_daily_counts, k, d) =>
            \E r \in Reqs : /\ req[r].pc = "commit"
                            /\ req[r].table = "agent_daily_counts"
                            /\ req[r].agent_key = k
                            /\ req[r].day = d
                            /\ req'[r].pc = "validate"

C5_IpRowsFrame ==
    \A i \in Ips, d \in Days :
        CountIn(ip_daily_counts', i, d) # CountIn(ip_daily_counts, i, d) =>
            \E r \in Reqs : /\ req[r].pc = "commit"
                            /\ req[r].table = "ip_daily_counts"
                            /\ req[r].key_value = i
                            /\ req[r].day = d
                            /\ req'[r].pc = "route"

\* C5: the count of a credential is the number of allowed calls made with
\* that credential and changes only in the commit of a per-key check of a
\* request that carries it; the count of an origin changes only in the
\* commit of the per-origin check of a request from it. One scope reaching
\* its limit therefore never rejects another.
C5_ScopeIsolation ==
    []C5_OwnCount /\ [][C5_KeyRowsFrame /\ C5_IpRowsFrame]_vars

\* k1 is at its limit and a write with k2 was accepted as k2's first
C5_Witness ==
    \E d \in Days :
        /\ Count("agent_daily_counts", "k1", d) = DAILY_LIMIT_PER_KEY
        /\ Count("agent_daily_counts", "k2", d) = 1
        /\ response.status = "200"
        /\ response.x_agent_key = "k2"
        /\ response.result = Allowed(DAILY_LIMIT_PER_KEY, 1)

\* C6 as stated: a write that ends with a 400 validation error has consumed
\* no per-credential quota.
C6_ValidationConsumesNoQuota ==
    response.status = "400 validation" => ~response.result.ok

\* C6 amended: the step that answers 400 (no body, or a field that fails
\* validation) changes no ledger row, no identity and no counter; a
\* non-admin write that fails validation has by then consumed one unit of
\* its credential's quota, which is not given back.
C6_ValidationStepMutatesNothing ==
    [][\A r \in Reqs :
         ( /\ req[r].pc \in {"route", "validate"}
           /\ req'[r].pc = "done"
           /\ response'.status \in {"400 no data", "400 validation"} )
         => /\ UNCHANGED <<ledger, agents, agent_daily_counts, ip_daily_counts>>
            /\ ( response'.status = "400 validation" /\ ~req[r].admin
                 => /\ req[r].result.ok
                    /\ req[r].result.used_after >= 1
                    /\ response'.result = req[r].result )]_vars

\* a non-admin write was answered 400 after its credential's count went up,
\* and the ledger is empty
C6_Witness ==
    /\ response.status = "400 validation"
    /\ ~response.admin
    /\ response.result.ok
    /\ ledger = <<>>
    /\ \E d \in Days : Count("agent_daily_counts", response.x_agent_key, d) >= 1

\* the request is past global_ip_rate_limit
PastOrigin(q) ==
    \/ q.pc \in {"route", "validate", "insert"}
    \/ q.pc \in TxnPcs /\ q.table = "agent_daily_counts"

\* C7: every request starts with the per-origin check; a request reaches its
\* handler (authentication, per-key check, validation, insert) only from the
\* commit of an allowed per-origin check and never runs a second one; a
\* request that ends in its per-origin check is answered 429 for the origin
\* with the ledger, the identities and every counter unchanged.
C7_OriginCheckFirst ==
    [][\A r \in Reqs :
         /\ ( req[r].pc = "idle" /\ req'[r].pc # "idle"
              => req'[r].pc = "begin" /\ req'[r].table = "ip_daily_counts" )
         /\ ( PastOrigin(req'[r]) /\ ~PastOrigin(req[r])
              => /\ req[r].pc = "commit"
                 /\ req[r].table = "ip_daily_counts"
                 /\ returned'[CallOf(req[r])].allowed = returned[CallOf(req[r])].allowed + 1 )
         /\ ( PastOrigin(req[r]) => req'[r].table # "ip_daily_counts" )
         /\ ( req[r].pc \in TxnPcs /\ req[r].table = "ip_daily_counts" /\ req'[r].pc = "done"
              => /\ response'.status = "429 ip"
                 /\ UNCHANGED <<ledger, agents, agent_daily_counts, ip_daily_counts>> )]_vars

\* a request was denied by the per-origin check with nothing written by any
\* handler
C7_Witness ==
    /\ response.status = "429 ip"
    /\ \E c \in Calls : c[1] = "ip_daily_counts" /\ returned[c].denied >= 1
    /\ \A c \in Calls : returned[c].failed = 0
    /\ ledger = <<>>
    /\ agent_daily_counts = <<>>

\* the credential is one of the identity table
Registered(k) == \E a \in agents : a.agent_key = k

WriteStatuses == {"400 no data", "401", "429 key", "400 validation", "200", "500"}

\* C8 as stated: a write without the admin override whose credential is
\* empty or unknown always ends 401.
C8_AlwaysUnauthorized ==
    ( /\ response.status \in WriteStatuses
      /\ ~response.admin
      /\ ~Registered(response.x_agent_key) )
    => response.status = "401"

C8_NoFallbackIdentity ==
    /\ ( ( /\ response.status \in WriteStatuses
           /\ ~response.admin
           /\ ~Registered(response.x_agent_key) )
         => response.status \in {"401", "400 no data"} )
    /\ \A i \in 1..Len(ledger) :
          \/ ledger[i].by_admin
          \/ /\ Registered(ledger[i].by_key)
             /\ \E a \in agents : /\ a.agent_key = ledger[i].by_key
                                  /\ a.username.id = ledger[i].agent_id
    /\ \A x \in DOMAIN agent_daily_counts : Registered(x[1])
    /\ \A r \in Reqs :
          PastOrigin(req[r]) /\ req[r].pc # "route" /\ ~req[r].admin
          => Registered(req[r].agent_key)

C8_RejectionWritesNothing ==
    \A r \in Reqs :
        ( /\ req[r].pc = "route"
          /\ req'[r].pc = "done"
          /\ response'.status \in {"401", "400 no data"} )
        => UNCHANGED <<ledger, agents, agent_daily_counts>>

\* C8, the part that holds: a write without the admin override whose
\* credential is empty or unknown, once past the per-origin check, ends 401,
\* or 400 when it has no body (the body is tested before the credential);
\* it never goes on under another identity, every ledger row is an admin's
\* or carries the identity registered for its credential, and no counter row
\* exists for an unregistered credential.
C8_UnknownCredentialNeverWrites ==
    []C8_NoFallbackIdentity /\ [][C8_RejectionWritesNothing]_vars

\* a write with an unknown credential and a body ended 401
C8_Witness ==
    /\ response.status = "401"
    /\ response.x_agent_key = "kx"
    /\ ~response.admin
    /\ WRITE_KEY = "secret"

C9_AdminHoldsNoQuota ==
    /\ \A r \in Reqs :
          req[r].admin => /\ req[r].pc \in {"validate", "insert"}
                          /\ req[r].agent_key = ""
                          /\ req[r].result = NoResult
    /\ ( response.admin =>
            response.status \in {"400 no data", "400 validation", "200", "500"} )
    /\ \A i \in 1..Len(ledger) : ledger[i].by_admin => ledger[i].by_key = ""

C9_AdminStepsFrame ==
    \A r \in Reqs :
        ( /\ req'[r] # req[r]
          /\ \/ req[r].admin
             \/ req'[r].admin
             \/ response'.admin /\ response' # response )
        => /\ agent_daily_counts' = agent_daily_counts
           /\ \A c \in Calls :
                 c[1] = "agent_daily_counts" => returned'[c] = returned[c]

\* C9: a write with the matching admin key never enters the per-key check:
\* no step of it changes a per-credential count or makes a per-key call, it
\* is never answered 429 for a credential, and the row it inserts carries
\* no credential, whatever X-Agent-Key it sends.
C9_AdminSkipsKeyQuota == []C9_AdminHoldsNoQuota /\ [][C9_AdminStepsFrame]_vars

\* more admin writes than the per-key limit were accepted on one day and no
\* per-credential count exists
C9_Witness ==
    /\ Len(ledger) > DAILY_LIMIT_PER_KEY
    /\ \A i \in 1..Len(ledger) : ledger[i].by_admin /\ ledger[i].timestamp = 1
    /\ agent_daily_counts = <<>>
    /\ response.status = "200"
    /\ response.admin

\* the allowed return of the call of q, in this step
AllowedNow(q) == returned'[CallOf(q)].allowed = returned[CallOf(q)].allowed + 1

C10_FirstCheckOfDay ==
    \A r \in Reqs :
        LET q == req[r]
            old == IF q.table = "ip_daily_counts" THEN ip_daily_counts ELSE agent_daily_counts
            new == IF q.table = "ip_daily_counts" THEN ip_daily_counts' ELSE agent_daily_counts'
        IN  /\ ( ( /\ q.pc = "select"
                   /\ req'[r].pc \in {"update", "limit_commit"}
                   /\ <<q.key_value, q.day>> \notin DOMAIN old )
                 => /\ req'[r].used = 0
                    /\ req'[r].pc = "update" )
            /\ ( q.pc = "commit" /\ AllowedNow(q) /\ q.used = 0
                 => /\ <<q.key_value, q.day>> \in DOMAIN new
                    /\ new[<<q.key_value, q.day>>] = 1
                    /\ \A x \in DOMAIN old : x \in DOMAIN new /\ new[x] = old[x]
                    /\ ( q.table = "agent_daily_counts"
                         => req'[r].result = Allowed(q.limit, 1) ) )

C10_NoReset ==
    /\ \A x \in DOMAIN ip_daily_counts :
          x \in DOMAIN ip_daily_counts' /\ ip_daily_counts'[x] >= ip_daily_counts[x]
    /\ \A x \in DOMAIN agent_daily_counts :
          x \in DOMAIN agent_daily_counts' /\ agent_daily_counts'[x] >= agent_daily_counts[x]

\* C10: a check that finds no row for (scope, today) observes 0 used and is
\* allowed; its commit creates that day's row with count 1, returns
\* used_after = 1 and leaves every other row, the earlier days' included, as
\* it was; no step removes or lowers a row.
C10_DayBoundaryReset == [][C10_FirstCheckOfDay /\ C10_NoReset]_vars

\* a credential at its limit on day d was allowed on day d + 1 as that day's
\* first write
C10_Witness ==
    \E k \in KeyHeaders, d \in Days :
        /\ d + 1 \in Days
        /\ today = d + 1
        /\ Count("agent_daily_counts", k, d) = DAILY_LIMIT_PER_KEY
        /\ Count("agent_daily_counts", k, d + 1) = 1
        /\ response.status = "200"
        /\ response.x_agent_key = k
        /\ response.result = Allowed(DAILY_LIMIT_PER_KEY, 1)

RegisterStatuses ==
    {"400 missing username", "400 invalid username", "409", "200 register", "500 register"}

\* request r is answered by /register in this step
Registers(r) ==
    /\ req[r].pc = "route"
    /\ req'[r].pc = "done"
    /\ response'.status \in RegisterStatuses

\* C11 as stated: of the register calls with a valid username one succeeds
\* and every other one fails with Conflict, so once such a call has returned
\* the username is registered and the call was answered 200 or 409.
C11_OneSucceedsOthersConflict ==
    response.status \in {"200 register", "409", "500 register"} =>
        /\ response.status \in {"200 register", "409"}
        /\ \E a \in agents : a.username = response.username

C11_RegistryUnique ==
    /\ \A a, b \in agents :
          (a.username = b.username \/ a.agent_key = b.agent_key) => a = b
    /\ \A a \in agents : agent_key_to_username(a.agent_key) = a.username
    /\ ( response.status = "409" => \E a \in agents : a.username = response.username )
    /\ ( response.status = "200 register" =>
            agent_key_to_username(response.agent_key) = response.username )

C11_RegisterStep ==
    /\ agents \subseteq agents'
    /\ \A r \in Reqs :
          Registers(r) =>
             IF response'.status = "200 register"
             THEN /\ \A a \in agents : /\ a.username # response'.username
                                       /\ a.agent_key # response'.agent_key
                  /\ agents' = agents \cup {[username |-> response'.username,
                                             agent_key |-> response'.agent_key]}
             ELSE agents' = agents
    /\ agents' # agents => \E r \in Reqs : Registers(r)

\* C11 amended: at most one register call per username succeeds; it adds one
\* row and returns its credential, which resolves to that username in every
\* later state, no row being ever changed or removed.  A call answered 409
\* found the username registered; a call answered 400, 409 or 500 (the INSERT
\* raising another error than the constraint's) changes nothing, so a
\* username may stay unregistered after calls that failed with 500.
C11_AtMostOneRegistration == []C11_RegistryUnique /\ [][C11_RegisterStep]_vars

\* carol was registered by one call and a second call with carol got 409
C11_Witness ==
    /\ response.status = "409"
    /\ response.username = Carol
    /\ agent_key_to_username("k3") = Carol
    /\ Cardinality(agents) = 3

\* request r is answered in this step
Answered(r) == req[r].pc # "done" /\ req'[r].pc = "done"

\* C12: no step changes or removes a ledger row; the step that answers a
\* write with status ok appends exactly one row, and every other step, the
\* answers 400, 401, 429 and those of the reads included, leaves the ledger
\* as it is.
C12_AppendOnly ==
    [][ /\ Len(ledger') >= Len(ledger)
        /\ SubSeq(ledger', 1, Len(ledger)) = ledger
        /\ \A r \in Reqs :
              Answered(r) =>
                 IF response'.status = "200"
                 THEN /\ req[r].pc = "insert"
                      /\ Len(ledger') = Len(ledger) + 1
                 ELSE ledger' = ledger
        /\ ledger' # ledger => \E r \in Reqs : Answered(r) ]_vars

\* two writes were accepted, the second after the first
C12_Witness ==
    /\ Len(ledger) = 2
    /\ response.status = "200"
    /\ \A r \in Reqs : req[r].pc = "done"

\* C13 as stated: GET /entries returns at most the clamped limit rows,
\* newest timestamp first, and rows of equal timestamp most recently
\* inserted (highest rowid) first.
C13_NewestFirstTiesByInsertion ==
    response.status = "200 entries" =>
        LET e == response.entries
        IN  /\ Len(e) <= response.limit
            /\ response.limit >= 1 /\ response.limit <= 500
            /\ \A i, j \in 1..Len(e) :
                  i < j =>
                     \/ ledger[e[i]].timestamp > ledger[e[j]].timestamp
                     \/ /\ ledger[e[i]].timestamp = ledger[e[j]].timestamp
                        /\ e[i] > e[j]

\* three rows of timestamps t1 < t2 < t3 were read with limit 1 and the
\* newest came back
C13_Witness ==
    /\ response.status = "200 entries"
    /\ Len(ledger) = 3
    /\ \A i, j \in 1..3 : i # j => ledger[i].timestamp # ledger[j].timestamp
    /\ response.limit = 1
    /\ ledger[response.entries[1]].timestamp = MaxStamp

\* C13, the part that holds: at most the clamped limit rows, no row twice,
\* in descending order of timestamp, and no row left out is newer than a row
\* returned.
C13_NewestFirst ==
    response.status = "200 entries" =>
        LET e == response.entries
        IN  /\ Len(e) = Min(response.limit, Len(ledger))
            /\ response.limit >= 1 /\ response.limit <= 500
            /\ \A i, j \in 1..Len(e) :
                  i < j => /\ e[i] # e[j]
                           /\ ledger[e[i]].timestamp >= ledger[e[j]].timestamp
            /\ \A k \in 1..Len(ledger) :
                  (\A i \in 1..Len(e) : e[i] # k) =>
                     \A i \in 1..Len(e) : ledger[e[i]].timestamp >= ledger[k].timestamp

\* C14: the step that answers GET /whoami changes no per-credential count
\* and makes no per-key call; for a registered credential it reports the
\* count committed for (credential, today), which is the number of that
\* day's allowed per-key calls with it, and remaining = max(0, limit - used).
C14_PeekReadsCommitted ==
    [][\A r \in Reqs :
         ( /\ req[r].pc = "route"
           /\ req'[r].pc = "done"
           /\ response'.status \in {"200 whoami", "401 whoami"} )
         => /\ agent_daily_counts' = agent_daily_counts
            /\ \A c \in Calls : c[1] = "agent_daily_counts" => returned'[c] = returned[c]
            /\ ( response'.status = "200 whoami" =>
                   LET k == response'.x_agent_key
                       used == response'.result.used_after
                   IN  /\ used = CountIn(agent_daily_counts, k, today)
                       /\ response'.result.remaining = Max(0, DAILY_LIMIT_PER_KEY - used)
                       /\ k \in KeyHeaders =>
                             used = returned[<<"agent_daily_counts", k, today>>].allowed )]_vars

\* after one allowed per-key call of a credential, whoami reports used 1 and
\* remaining limit - 1, and the count is still 1
C14_Witness ==
    /\ response.status = "200 whoami"
    /\ response.result.used_after = 1
    /\ response.result.remaining = DAILY_LIMIT_PER_KEY - 1
    /\ Count("agent_daily_counts", response.x_agent_key, today) = 1

C15_CountIsAllowed ==
    \A c \in Calls : Count(c[1], c[2], c[3]) = returned[c].allowed

C15_FailedWriteStep ==
    \A c \in Calls :
        returned'[c].rolled_back > returned[c].rolled_back =>
            /\ ip_daily_counts' = ip_daily_counts
            /\ agent_daily_counts' = agent_daily_counts
            /\ db_lock # 0
            /\ db_lock' = 0
            /\ req[db_lock].pc \in {"update", "commit"}
            /\ CallOf(req[db_lock]) = c
            /\ req'[db_lock].pc = "done"

\* C15: a call whose UPDATE, INSERT or COMMIT raises writes nothing: every
\* stored count is what it was before the call, the write lock is released
\* and the call is over; every stored count is therefore the number of
\* allowed calls on its (scope, day), neither more nor less, and that is
\* what a retry reads.
C15_RollbackKeepsCount == []C15_CountIsAllowed /\ [][C15_FailedWriteStep]_vars

\* a call on a (scope, day) failed in its write and another one on it was
\* allowed as the first
C15_Witness ==
    \E c \in Calls :
        /\ returned[c].rolled_back >= 1
        /\ returned[c].allowed = 1
        /\ Count(c[1], c[2], c[3]) = 1

\* C16 as stated: no write whose domain, object or claim is empty after
\* trimming is accepted, so no ledger row holds such a value.
C16_BlankNeverStored ==
    \A i \in 1..Len(ledger) :
        /\ Strip(ledger[i].domain).len > 0
        /\ Strip(ledger[i].object).len > 0
        /\ Strip(ledger[i].claim).len > 0

\* C16, the part that holds: a stored domain and object are non-empty after
\* trimming, and a stored claim is non-empty as sent.
C16_DomainObjectTrimmed ==
    \A i \in 1..Len(ledger) :
        /\ Strip(ledger[i].domain).len > 0
        /\ Strip(ledger[i].object).len > 0
        /\ ledger[i].claim.len > 0

\* the problems of a body, each taken alone
MissingFields(d) == {f \in {"domain", "object", "claim", "confidence"} : d[f].type = "absent"}
IsEmpty(v) == v.type # "str" \/ v.len = 0
HasEmptyField(d) ==
    \/ IsEmpty(d.domain) \/ d.domain.stripped = 0
    \/ IsEmpty(d.object) \/ d.object.stripped = 0
    \/ IsEmpty(d.claim)
HasLongField(d, username) ==
    \/ username.len > MAX_AGENT_ID_CHARS
    \/ d.domain.stripped > MAX_DOMAIN_CHARS
    \/ d.object.stripped > MAX_OBJECT_CHARS
    \/ d.claim.len > MAX_CLAIM_CHARS
    \/ d.context.type = "str" /\ d.context.len > MAX_CONTEXT_CHARS
NotANumber(d) == d.confidence.type # "num"
OutOfRange(d) == d.confidence.type = "num" /\ (d.confidence.num < 0 \/ d.confidence.num > 10000)
TooLongErrors ==
    {"agent_id too long", "domain too long", "object too long", "claim too long",
     "context too long"}

\* C18: the validation reports a missing required field, the first of
\* domain, object, claim, confidence, whatever else is wrong; with none
\* missing, an empty domain, object or claim, whatever else is wrong; with
\* none empty, an over-long field, whatever the confidence is; then a
\* confidence that is not a number, then one out of [0, 1]; and it accepts
\* exactly the bodies with none of these problems.
C18_FirstProblemReported ==
    [][\A r \in Reqs :
         req[r].pc = "validate" /\ req'[r].pc # "validate" =>
            LET d == req[r].data
                u == req[r].username
                e == response'.error
                rejected == req'[r].pc = "done" /\ response'.status = "400 validation"
            IN  IF MissingFields(d) # {}
                THEN /\ rejected
                     /\ e = "missing " \o
                            (IF "domain" \in MissingFields(d) THEN "domain"
                             ELSE IF "object" \in MissingFields(d) THEN "object"
                             ELSE IF "claim" \in MissingFields(d) THEN "claim"
                             ELSE "confidence")
                ELSE IF HasEmptyField(d)
                THEN rejected /\ e = "domain, object and claim must be non-empty"
                ELSE IF HasLongField(d, u)
                THEN rejected /\ e \in TooLongErrors
                ELSE IF NotANumber(d)
                THEN rejected /\ e = "confidence must be a number"
                ELSE IF OutOfRange(d)
                THEN rejected /\ e = "confidence out of range"
                ELSE req'[r].pc = "insert" /\ response' = response]_vars

\* a body with a missing confidence, a blank domain and an over-long claim
\* was answered "missing confidence"
C18_Witness ==
    /\ response.status = "400 validation"
    /\ response.error = "missing confidence"
    /\ response.data.domain = Blank
    /\ response.data.claim = Long(MAX_CLAIM_CHARS)
    /\ response.data.confidence = Absent

\* the rows a credential wrote, those dated day d, and its counts summed
\* over the days up to d
RowsOfKey(k) ==
    Cardinality({i \in 1..Len(ledger) : ledger[i].by_key = k /\ ~ledger[i].by_admin})
RowsOfKeyOn(k, d) ==
    Cardinality({i \in 1..Len(ledger) :
                    ledger[i].by_key = k /\ ~ledger[i].by_admin /\ ledger[i].timestamp = d})
RECURSIVE CountUpTo(_, _)
CountUpTo(k, d) ==
    IF d = 0 THEN 0 ELSE Count("agent_daily_counts", k, d) + CountUpTo(k, d - 1)

\* C19 as stated: for every registered credential and day, the rows written
\* with the credential and dated that day are at most the count of
\* (credential, day), which is at most the daily limit.
C19_RecordsWithinDailyCount ==
    \A k \in KeyHeaders, d \in Days :
        Registered(k) =>
            /\ RowsOfKeyOn(k, d) <= Count("agent_daily_counts", k, d)
            /\ Count("agent_daily_counts", k, d) <= DAILY_LIMIT_PER_KEY

\* C19, the part that holds: every count is at most the daily limit, and the
\* rows written with a credential are at most its counts summed over the days.
C19_RecordsWithinTotalCount ==
    \A k \in KeyHeaders :
        /\ RowsOfKey(k) <= CountUpTo(k, MaxDay)
        /\ \A d \in Days : Count("agent_daily_counts", k, d) <= DAILY_LIMIT_PER_KEY

\* C20: a row written without the admin override carries the username
\* registered for the credential it was written with, whatever agent_id the
\* body held; a row written with the admin override carries the agent_id of
\* the body, or "admin" when the body has none.
C20_IdentityFromCredential ==
    \A i \in 1..Len(ledger) :
        LET row == ledger[i]
        IN  IF row.by_admin
            THEN row.agent_id = (IF Truthy(row.sent_agent_id)
                                 THEN row.sent_agent_id.id ELSE "admin")
            ELSE \E a \in agents : /\ a.agent_key = row.by_key
                                   /\ a.agent_key # ""
                                   /\ row.agent_id = a.username.id

\* alice's credential wrote a row whose body named mallory, and the row is
\* alice's
C20_Witness ==
    \E i \in 1..Len(ledger) :
        /\ ~ledger[i].by_admin
        /\ ledger[i].by_key = "k1"
        /\ ledger[i].sent_agent_id = Txt("mallory", 7, 7)
        /\ ledger[i].agent_id = "alice"

\* C17 as stated, its outcomes: every response is ok, a validation error,
\* Unauthorized, Conflict or RateLimited.
C17_OutcomeIsListed ==
    response.status \in
        {"none", "200", "200 entries", "200 whoami", "200 register",
         "400 no data", "400 validation", "400 missing username", "400 invalid username",
         "401", "401 whoami", "409", "429 ip", "429 key"}

\* C17 amended: every request that has arrived is eventually answered,
\* whatever the other requests do; the answer is ok, 400, 401, 409, 429, or
\* 500 when the INSERT of a write or of a registration raises.
C17_EveryRequestAnswered ==
    \A r \in Reqs : (req[r].pc \notin {"idle", "done"}) ~> (req[r].pc = "done")

\* both requests are answered, one of them rejected by a call that raised
\* while the other wrote its row
C17_Witness ==
    /\ \A r \in Reqs : req[r].pc = "done"
    /\ \E c \in Calls : returned[c].failed >= 1
    /\ Len(ledger) = 1

\* C21: with WRITE_KEY not set no request is an admin write, whatever
\* X-Write-Key it sends, the empty one included: no request and no response
\* is an admin's, every request past the authentication holds a registered
\* credential and an allowed per-key result, and every ledger row was
\* written with a registered credential whose counts cover its rows.
C21_NoAdminWithoutKey ==
    WRITE_KEY = "" =>
        /\ \A r \in Reqs : ~req[r].admin
        /\ ~response.admin
        /\ \A r \in Reqs :
              req[r].pc \in {"validate", "insert"} =>
                 /\ Registered(req[r].agent_key)
                 /\ req[r].result.ok
                 /\ req[r].result.used_after >= 1
        /\ \A i \in 1..Len(ledger) :
              ~ledger[i].by_admin /\ Registered(ledger[i].by_key)
        /\ \A k \in KeyHeaders : RowsOfKey(k) <= CountUpTo(k, MaxDay)
        /\ Len(ledger) <= CountUpTo("k1", MaxDay) + CountUpTo("k2", MaxDay)

\* with WRITE_KEY not set a write was accepted: through a registered
\* credential and its quota, and not as an admin's
C21_Witness ==
    /\ WRITE_KEY = ""
    /\ response.status = "200"
    /\ ~response.admin
    /\ Registered(response.x_agent_key)
    /\ response.result.ok
    /\ Len(ledger) >= 1
    /\ ~ledger[Len(ledger)].by_admin

====
